---- MODULE Spec2Model ----
(***************************************************************************)
(* Model of the rust-analyzer LSP session: RustAnalyzerLsp::new (backend   *)
(* availability check, spawn, initialize/initialized handshake, readiness  *)
(* logger), the query operations hover / type_definition /                 *)
(* find_references / document_symbols, open_file and shutdown, together    *)
(* with the backend process and the mainloop task that drives its stream.  *)
(***************************************************************************)
EXTENDS Integers, Sequences, FiniteSets, TLC

\* Bounds of the model.
MaxCalls == 2        \* operations invoked on the Session in one behaviour
MaxPush == 1         \* index-finished notifications the backend pushes
MaxLines == 3        \* lines of the file get_file_lines reads
MaxPad == 2          \* largest prefix / suffix passed to get_file_lines
WordBits == 3        \* width of the scaled-down u32 of get_file_lines

\* Caller tasks sharing one &RustAnalyzerLsp, and the task running new().
Callers == {"c1", "c2"}
Boot == "boot"
Free == "free"
Requesters == Callers \cup {Boot}

QueryOps == {"hover", "type_definition", "find_references", "document_symbols"}
NoResult == [op |-> "none", status |-> "none", why |-> "none"]

\* Results a response can carry: nothing (the Option is None), or a document
\* symbol response of flat or nested shape; other results are passed through
\* unchanged and are not distinguished.
SymLists == {<<"s1">>, <<"s1", "s2">>}
NullPayload == [shape |-> "Null", syms |-> <<>>]
DocumentSymbolResponses ==
    {NullPayload} \cup [shape : {"Flat", "Nested"}, syms : SymLists]

\* Option<Vec<SymbolInformation>> returned by document_symbols.
Unset == [kind |-> "unset", syms |-> <<>>]
NoneV == [kind |-> "None", syms |-> <<>>]
SomeV(l) == [kind |-> "Some", syms |-> l]

\* No tool call is in progress.
CcIdle == [pc |-> "off"]
GlIdle == [pc |-> "off"]

VARIABLES
    bootPc,            \* position of new()
    is_installed,      \* local of new(): "unset" | "yes" | "no"
    rustup_available,  \* local of new(): "unset" | "yes" | "no"
    procs,             \* OS processes launched by new()
    mainloop,          \* the mainloop task: "none" | "running" | "ended"
    serverLock,        \* owner of Mutex<ServerSocket>
    outstanding,       \* requests sent whose response has not been observed
    resp,              \* response available to each requester
    wire,              \* outbound messages handed to the connection so far
    queue,             \* the flume channel indexed_tx -> indexed_rx
    pushed,            \* index-finished notifications pushed so far
    indexedRxLock,     \* owner of Mutex<Receiver<()>>
    logger,            \* "none" | "running" | "ended"
    logged,            \* events consumed by the logging task
    mainloop_handle,   \* Option<JoinHandle>: "some" | "taken"
    handleLock,        \* owner of Mutex<Option<JoinHandle>>
    pc,                \* position of each caller task
    callOp,            \* operation each caller is executing
    result,            \* outcome of each caller's last finished operation
    calls,             \* operations invoked so far
    didOpenAt,         \* value of pushed when the caller's did-open was sent
    gotEvent,          \* serial of the event the caller's open_file received
    openOk,            \* open_file calls that returned Ok
    install_result,    \* local of new(): outcome of `rustup component add`
    payload,           \* result carried by the response available to a requester
    retval,            \* value returned by each caller's last document_symbols
    cc,                \* one cargo_check tool call (CargoCheck::call)
    gl                 \* one get_file_lines call

vars == <<bootPc, is_installed, rustup_available, procs, mainloop, serverLock,
          outstanding, resp, wire, queue, pushed, indexedRxLock, logger,
          logged, mainloop_handle, handleLock, pc, callOp, result, calls,
          didOpenAt, gotEvent, openOk, install_result, payload, retval, cc,
          gl>>

bootVars == <<is_installed, rustup_available, procs, install_result>>
symVars == <<payload, retval>>
toolVars == <<cc, gl>>
callVars == <<pc, callOp, result, calls, didOpenAt, gotEvent, openOk>>
readyVars == <<queue, pushed, indexedRxLock, logger, logged>>
joinVars == <<mainloop_handle, handleLock>>
sessionVars == <<bootPc, bootVars, mainloop, serverLock, outstanding, resp,
                 wire, readyVars, joinVars, callVars, symVars>>

SessionInit ==
    /\ bootPc = "check"
    /\ is_installed = "unset"
    /\ rustup_available = "unset"
    /\ procs = {}
    /\ mainloop = "none"
    /\ serverLock = Free
    /\ outstanding = {}
    /\ resp = [r \in Requesters |-> "none"]
    /\ wire = {}
    /\ queue = <<>>
    /\ pushed = 0
    /\ indexedRxLock = Free
    /\ logger = "none"
    /\ logged = 0
    /\ mainloop_handle = "some"
    /\ handleLock = Free
    /\ pc = [c \in Callers |-> "idle"]
    /\ callOp = [c \in Callers |-> "none"]
    /\ result = [c \in Callers |-> NoResult]
    /\ calls = 0
    /\ didOpenAt = [c \in Callers |-> 0]
    /\ gotEvent = [c \in Callers |-> 0]
    /\ openOk = 0
    /\ install_result = "unset"
    /\ payload = [r \in Requesters |-> NullPayload]
    /\ retval = [c \in Callers |-> Unset]

\* The state after construction; no tool call is in progress.
Init ==
    /\ SessionInit
    /\ cc = CcIdle
    /\ gl = GlIdle

\* The mainloop task has returned: the connection no longer accepts messages
\* and the router that owns indexed_tx has been dropped.
MainloopFinished == mainloop = "ended"

ServerLockIgnored == TRUE

\* self.server.lock().await completes only when no other task holds the guard.
ServerLockAvailable == serverLock = Free

SendRequestNeverFails(r, m) ==
    IF mainloop = "running"
    THEN /\ wire' = wire \cup {[msg |-> m, from |-> r]}
         /\ outstanding' = outstanding \cup {r}
         /\ resp' = [resp EXCEPT ![r] = "none"]
    ELSE /\ wire' = wire
         /\ outstanding' = outstanding
         /\ resp' = [resp EXCEPT ![r] = "none"]

\* ServerSocket::request: the request is handed to the mainloop; when the
\* mainloop has returned, the send fails and the response future yields Err.
SendRequest(r, m) ==
    IF mainloop = "running"
    THEN /\ wire' = wire \cup {[msg |-> m, from |-> r]}
         /\ outstanding' = outstanding \cup {r}
         /\ resp' = [resp EXCEPT ![r] = "none"]
    ELSE /\ wire' = wire
         /\ outstanding' = outstanding
         /\ resp' = [resp EXCEPT ![r] = "err"]

(***************************************************************************)
(* RustAnalyzerLsp::new                                                    *)
(***************************************************************************)

\* Launching `rust-analyzer` as availability check: Ok(_) => true, Err => false.
\* The spawned child is dropped without being waited for or killed.
new_check_installed ==
    /\ bootPc = "check"
    /\ \E ok \in BOOLEAN :
        /\ is_installed' = IF ok THEN "yes" ELSE "no"
        /\ procs' = IF ok THEN procs \cup {"ra_probe"} ELSE procs
        /\ bootPc' = IF ok THEN "spawn" ELSE "rustup"
    /\ UNCHANGED <<symVars, toolVars,
                   rustup_available, install_result, mainloop, serverLock, outstanding, resp,
                   wire, readyVars, joinVars, callVars>>

RustupAbsentFallsThrough == "spawn"

\* else-branch of `if rustup_available`: return Err.
RustupAbsentNext == "failed"

\* `rustup --version` is launched; when that fails new() returns Err.
new_rustup_check ==
    /\ bootPc = "rustup"
    /\ \E ok \in BOOLEAN :
        /\ rustup_available' = IF ok THEN "yes" ELSE "no"
        /\ procs' = IF ok THEN procs \cup {"rustup_version"} ELSE procs
        /\ bootPc' = IF ok THEN "install" ELSE RustupAbsentNext
    /\ UNCHANGED <<symVars, toolVars,
                   is_installed, install_result, mainloop, serverLock, outstanding, resp,
                   wire, readyVars, joinVars, callVars>>

InstallIgnoresStatus(out) == IF out = "runerr" THEN "failed" ELSE "spawn"

\* `rustup component add rust-analyzer`: only Ok(output) with a successful
\* status continues; a non-zero status or an error running rustup returns Err.
InstallNext(out) == IF out = "success" THEN "spawn" ELSE "failed"

new_install ==
    /\ bootPc = "install"
    /\ \E out \in {"success", "nonzero", "runerr"} :
        /\ procs' = IF out = "runerr" THEN procs
                    ELSE procs \cup {"rustup_install"}
        /\ install_result' = out
        /\ bootPc' = InstallNext(out)
    /\ UNCHANGED <<symVars, toolVars,
                   is_installed, rustup_available, mainloop, serverLock,
                   outstanding, resp, wire, readyVars, joinVars, callVars>>

\* Spawn of the backend with piped stdin/stdout, tokio::spawn of the mainloop
\* task, ChangeNotifier::new(..)? and construction of the client.
new_spawn ==
    /\ bootPc = "spawn"
    /\ \E ok \in BOOLEAN, notifierOk \in BOOLEAN :
        IF ok
        THEN /\ procs' = procs \cup {"backend"}
             /\ mainloop' = "running"
             /\ bootPc' = IF notifierOk THEN "initialize" ELSE "failed"
        ELSE /\ procs' = procs
             /\ mainloop' = mainloop
             /\ bootPc' = "failed"
    /\ UNCHANGED <<symVars, toolVars,
                   is_installed, rustup_available,
                   install_result, serverLock, outstanding,
                   resp, wire, readyVars, joinVars, callVars>>

\* client.server.lock().await.initialize(params): project.uri()? is evaluated
\* under the guard; the guard is held until the response has been awaited.
new_initialize ==
    /\ bootPc = "initialize"
    /\ ServerLockAvailable
    /\ \E uriOk \in BOOLEAN :
        IF uriOk
        THEN /\ SendRequest(Boot, "initialize")
             /\ serverLock' = Boot
             /\ bootPc' = "init_wait"
        ELSE /\ UNCHANGED <<wire, outstanding, resp, serverLock>>
             /\ bootPc' = "failed"
    /\ UNCHANGED <<symVars, toolVars,
                   bootVars, mainloop, readyVars, joinVars, callVars>>

InitializeIgnoresError(r) == "initialized"

\* .await.context("LSP initialize failed")?
InitializeNext(r) == IF r = "ok" THEN "initialized" ELSE "failed"

new_initialize_response ==
    /\ bootPc = "init_wait"
    /\ resp[Boot] # "none"
    /\ serverLock' = Free
    /\ outstanding' = outstanding \ {Boot}
    /\ bootPc' = InitializeNext(resp[Boot])
    /\ UNCHANGED <<symVars, toolVars,
                   bootVars, mainloop, resp, wire, readyVars, joinVars,
                   callVars>>

\* client.server.lock().await.initialized(..).context(..)?: a notification,
\* the guard is dropped at the end of the statement.
new_initialized ==
    /\ bootPc = "initialized"
    /\ ServerLockAvailable
    /\ IF mainloop = "running"
       THEN /\ wire' = wire \cup {[msg |-> "initialized", from |-> Boot]}
            /\ bootPc' = "logger"
       ELSE /\ wire' = wire
            /\ bootPc' = "failed"
    /\ UNCHANGED <<symVars, toolVars,
                   bootVars, mainloop, serverLock, outstanding, resp,
                   readyVars, joinVars, callVars>>

\* indexed_rx is cloned and the logging task is spawned; Ok(client).
new_spawn_logger ==
    /\ bootPc = "logger"
    /\ indexedRxLock = Free
    /\ logger' = "running"
    /\ bootPc' = "ready"
    /\ UNCHANGED <<symVars, toolVars,
                   bootVars, mainloop, serverLock, outstanding, resp, wire,
                   queue, pushed, indexedRxLock, logged, joinVars, callVars>>

(***************************************************************************)
(* The backend process and the mainloop task                               *)
(***************************************************************************)

\* The backend answers an outstanding request with a result or an error; the
\* result of a document_symbol request is None, a flat or a nested list.
backend_respond(r, o) ==
    /\ mainloop = "running"
    /\ r \in outstanding
    /\ resp[r] = "none"
    /\ resp' = [resp EXCEPT ![r] = o]
    /\ \E p \in (IF o = "ok" /\ r \in Callers /\ callOp[r] = "document_symbols"
                  THEN DocumentSymbolResponses ELSE {NullPayload}) :
        payload' = [payload EXCEPT ![r] = p]
    /\ UNCHANGED <<retval, toolVars, bootPc, bootVars, mainloop, serverLock,
                   outstanding, wire, readyVars, joinVars, callVars>>

ProducerWaitsForGuard == serverLock = Free

\* The router is built before the guard exists and holds only indexed_tx, the
\* sender of flume::unbounded(): its send waits neither for the guard nor for
\* room in the channel.
ProducerCanSend == TRUE

\* The backend pushes an index-finished notification: the router sends () on
\* the channel.
backend_push_indexed ==
    /\ mainloop = "running"
    /\ pushed < MaxPush
    /\ ProducerCanSend
    /\ pushed' = pushed + 1
    /\ queue' = Append(queue, pushed + 1)
    /\ UNCHANGED <<symVars, toolVars,
                   bootPc, bootVars, mainloop, serverLock, outstanding, resp,
                   wire, indexedRxLock, logger, logged, joinVars, callVars>>

\* run_buffered returns (stream closed: Ok or Err, both only logged) or the
\* task panics; every pending response future then yields Err.  How the task
\* ended is visible only to the join in shutdown.
mainloop_exit ==
    /\ mainloop = "running"
    /\ mainloop' = "ended"
    /\ resp' = [r \in Requesters |->
                  IF r \in outstanding /\ resp[r] = "none" THEN "err"
                  ELSE resp[r]]
    /\ UNCHANGED <<symVars, toolVars,
                   bootPc, bootVars, serverLock, outstanding, wire, readyVars,
                   joinVars, callVars>>

\* The ChangeNotifier exists from ChangeNotifier::new(server.clone(), ..) until
\* the client is dropped.
NotifierRunning ==
    bootPc \in {"initialize", "init_wait", "initialized", "logger", "ready"}

\* A file under the project root changes: the ChangeNotifier delivers the
\* change event on the Session's connection, under the guard it shares.
change_notifier_notify ==
    /\ NotifierRunning
    /\ ServerLockAvailable
    /\ mainloop = "running"
    /\ wire' = wire \cup {[msg |-> "did_change_watched_files",
                           from |-> "notifier"]}
    /\ UNCHANGED <<symVars, toolVars, bootPc, bootVars, mainloop, serverLock,
                   outstanding, resp, readyVars, joinVars, callVars>>

\* The logging task: while let Ok(()) = rx.recv_async().await { info!(..) }
logger_recv ==
    /\ logger = "running"
    /\ queue # <<>>
    /\ queue' = Tail(queue)
    /\ logged' = logged + 1
    /\ UNCHANGED <<symVars, toolVars,
                   bootPc, bootVars, mainloop, serverLock, outstanding, resp,
                   wire, pushed, indexedRxLock, logger, joinVars, callVars>>

\* recv_async yields Err once the channel is empty and its sender is dropped.
logger_end ==
    /\ logger = "running"
    /\ queue = <<>>
    /\ MainloopFinished
    /\ logger' = "ended"
    /\ UNCHANGED <<symVars, toolVars,
                   bootPc, bootVars, mainloop, serverLock, outstanding, resp,
                   wire, queue, pushed, indexedRxLock, logged, joinVars,
                   callVars>>

(***************************************************************************)
(* hover / type_definition / find_references / document_symbols            *)
(***************************************************************************)

Ret(o, s, w) == [op |-> o, status |-> s, why |-> w]

\* The operation is invoked on the Session returned by new();
\* self.project.file_uri(relative_path)? fails before the guard is touched.
query_call(c, k) ==
    /\ bootPc = "ready"
    /\ pc[c] = "idle"
    /\ calls < MaxCalls
    /\ calls' = calls + 1
    /\ retval' = [retval EXCEPT ![c] = Unset]
    /\ payload' = [payload EXCEPT ![c] = NullPayload]
    /\ \E uriOk \in BOOLEAN :
        IF uriOk
        THEN /\ pc' = [pc EXCEPT ![c] = "q_lock"]
             /\ callOp' = [callOp EXCEPT ![c] = k]
             /\ result' = [result EXCEPT ![c] = NoResult]
        ELSE /\ result' = [result EXCEPT ![c] = Ret(k, "err", "uri")]
             /\ UNCHANGED <<pc, callOp>>
    /\ UNCHANGED <<toolVars,
                   bootPc, bootVars, mainloop, serverLock, outstanding, resp,
                   wire, readyVars, joinVars, didOpenAt, gotEvent, openOk>>

GuardDroppedBeforeAwait(c) == Free

\* The MutexGuard returned by self.server.lock().await is a temporary of the
\* expression that also awaits the response: it is held across the await.
GuardWhileAwaiting(c) == c

\* self.server.lock().await.<request>(params): the request is sent.
query_request(c) ==
    /\ pc[c] = "q_lock"
    /\ ServerLockAvailable
    /\ SendRequest(c, callOp[c])
    /\ serverLock' = GuardWhileAwaiting(c)
    /\ pc' = [pc EXCEPT ![c] = "q_wait"]
    /\ UNCHANGED <<symVars, toolVars,
                   bootPc, bootVars, mainloop, readyVars, joinVars, callOp,
                   result, calls, didOpenAt, gotEvent, openOk>>

GuardKeptOnError(c, r) == IF r = "err" THEN c ELSE Free

\* The guard is dropped when the operation's expression ends, whether the
\* awaited response was Ok or Err.
GuardAfterQuery(c, r) == Free

NestedFlattened(p) ==
    IF p.shape \in {"Flat", "Nested"} THEN SomeV(p.syms) ELSE NoneV

\* .and_then(|symbols| match symbols { Flat(f) => Some(f), Nested(_) => None })
DocumentSymbolsValue(p) == IF p.shape = "Flat" THEN SomeV(p.syms) ELSE NoneV

\* .await.context("... request failed"): the response or error is observed
\* and returned to the caller.
query_return(c) ==
    /\ pc[c] = "q_wait"
    /\ resp[c] # "none"
    /\ result' = [result EXCEPT ![c] =
                    Ret(callOp[c], resp[c],
                        IF resp[c] = "err" THEN "request" ELSE "none")]
    /\ serverLock' = GuardAfterQuery(c, resp[c])
    /\ outstanding' = outstanding \ {c}
    /\ resp' = [resp EXCEPT ![c] = "none"]
    /\ retval' = [retval EXCEPT ![c] =
                    IF callOp[c] = "document_symbols" /\ resp[c] = "ok"
                    THEN DocumentSymbolsValue(payload[c]) ELSE Unset]
    /\ pc' = [pc EXCEPT ![c] = "idle"]
    /\ callOp' = [callOp EXCEPT ![c] = "none"]
    /\ UNCHANGED <<payload, toolVars,
                   bootPc, bootVars, mainloop, wire, readyVars, joinVars,
                   calls, didOpenAt, gotEvent, openOk>>

(***************************************************************************)
(* open_file                                                               *)
(***************************************************************************)

open_file_call(c) ==
    /\ bootPc = "ready"
    /\ pc[c] = "idle"
    /\ calls < MaxCalls
    /\ calls' = calls + 1
    /\ \E uriOk \in BOOLEAN :
        IF uriOk
        THEN /\ pc' = [pc EXCEPT ![c] = "of_lock"]
             /\ callOp' = [callOp EXCEPT ![c] = "open_file"]
             /\ result' = [result EXCEPT ![c] = NoResult]
        ELSE /\ result' = [result EXCEPT ![c] = Ret("open_file", "err", "uri")]
             /\ UNCHANGED <<pc, callOp>>
    /\ UNCHANGED <<symVars, toolVars,
                   bootPc, bootVars, mainloop, serverLock, outstanding, resp,
                   wire, readyVars, joinVars, didOpenAt, gotEvent, openOk>>

open_file_did_open_keeps_guard(c) ==
    /\ pc[c] = "of_lock"
    /\ ServerLockAvailable
    /\ IF mainloop = "running"
       THEN /\ wire' = wire \cup {[msg |-> "did_open", from |-> c]}
            /\ didOpenAt' = [didOpenAt EXCEPT ![c] = pushed]
            /\ pc' = [pc EXCEPT ![c] = "of_rxlock"]
            /\ serverLock' = c
            /\ UNCHANGED <<callOp, result>>
       ELSE /\ result' = [result EXCEPT ![c] =
                            Ret("open_file", "err", "did_open")]
            /\ pc' = [pc EXCEPT ![c] = "idle"]
            /\ callOp' = [callOp EXCEPT ![c] = "none"]
            /\ UNCHANGED <<wire, didOpenAt, serverLock>>
    /\ UNCHANGED <<symVars, toolVars,
                   bootPc, bootVars, mainloop, outstanding, resp,
                   readyVars, joinVars, calls, gotEvent, openOk>>

\* self.server.lock().await.did_open(..).context(..)?: a notification sent
\* under the guard, which is dropped at the end of the statement.
open_file_did_open(c) ==
    /\ pc[c] = "of_lock"
    /\ ServerLockAvailable
    /\ IF mainloop = "running"
       THEN /\ wire' = wire \cup {[msg |-> "did_open", from |-> c]}
            /\ didOpenAt' = [didOpenAt EXCEPT ![c] = pushed]
            /\ pc' = [pc EXCEPT ![c] = "of_rxlock"]
            /\ UNCHANGED <<callOp, result>>
       ELSE /\ result' = [result EXCEPT ![c] =
                            Ret("open_file", "err", "did_open")]
            /\ pc' = [pc EXCEPT ![c] = "idle"]
            /\ callOp' = [callOp EXCEPT ![c] = "none"]
            /\ UNCHANGED <<wire, didOpenAt>>
    /\ UNCHANGED <<symVars, toolVars,
                   bootPc, bootVars, mainloop, serverLock, outstanding, resp,
                   readyVars, joinVars, calls, gotEvent, openOk>>

\* self.indexed_rx.lock().await
open_file_lock_rx(c) ==
    /\ pc[c] = "of_rxlock"
    /\ indexedRxLock = Free
    /\ indexedRxLock' = c
    /\ pc' = [pc EXCEPT ![c] = "of_recv"]
    /\ UNCHANGED <<symVars, toolVars,
                   bootPc, bootVars, mainloop, serverLock, outstanding, resp,
                   wire, queue, pushed, logger, logged, joinVars, callOp,
                   result, calls, didOpenAt, gotEvent, openOk>>

RecvLeavesMessage(q) == q

\* A message received from the flume channel is removed from it.
QueueAfterRecv(q) == Tail(q)

\* .recv_async().await yields Ok(()): the call returns Ok(()).
open_file_recv(c) ==
    /\ pc[c] = "of_recv"
    /\ queue # <<>>
    /\ gotEvent' = [gotEvent EXCEPT ![c] = Head(queue)]
    /\ queue' = QueueAfterRecv(queue)
    /\ indexedRxLock' = Free
    /\ result' = [result EXCEPT ![c] = Ret("open_file", "ok", "none")]
    /\ openOk' = openOk + 1
    /\ pc' = [pc EXCEPT ![c] = "idle"]
    /\ callOp' = [callOp EXCEPT ![c] = "none"]
    /\ UNCHANGED <<symVars, toolVars,
                   bootPc, bootVars, mainloop, serverLock, outstanding, resp,
                   wire, pushed, logger, logged, joinVars, calls, didOpenAt>>

\* .recv_async().await yields Err (channel empty, sender dropped):
\* .context("Failed waiting for index")?
open_file_recv_err(c) ==
    /\ pc[c] = "of_recv"
    /\ queue = <<>>
    /\ MainloopFinished
    /\ indexedRxLock' = Free
    /\ result' = [result EXCEPT ![c] = Ret("open_file", "err", "index")]
    /\ pc' = [pc EXCEPT ![c] = "idle"]
    /\ callOp' = [callOp EXCEPT ![c] = "none"]
    /\ UNCHANGED <<symVars, toolVars,
                   bootPc, bootVars, mainloop, serverLock, outstanding, resp,
                   wire, queue, pushed, logger, logged, joinVars, calls,
                   didOpenAt, gotEvent, openOk>>

(***************************************************************************)
(* shutdown                                                                *)
(***************************************************************************)

shutdown_call(c) ==
    /\ bootPc = "ready"
    /\ pc[c] = "idle"
    /\ calls < MaxCalls
    /\ calls' = calls + 1
    /\ pc' = [pc EXCEPT ![c] = "sd_lock"]
    /\ callOp' = [callOp EXCEPT ![c] = "shutdown"]
    /\ result' = [result EXCEPT ![c] = NoResult]
    /\ UNCHANGED <<symVars, toolVars,
                   bootPc, bootVars, mainloop, serverLock, outstanding, resp,
                   wire, readyVars, joinVars, didOpenAt, gotEvent, openOk>>

\* self.server.lock().await.shutdown(())
shutdown_request(c) ==
    /\ pc[c] = "sd_lock"
    /\ ServerLockAvailable
    /\ SendRequest(c, "shutdown")
    /\ serverLock' = c
    /\ pc' = [pc EXCEPT ![c] = "sd_wait"]
    /\ UNCHANGED <<symVars, toolVars,
                   bootPc, bootVars, mainloop, readyVars, joinVars, callOp,
                   result, calls, didOpenAt, gotEvent, openOk>>

GuardHeldIntoExit(c) == c

\* The guard taken for the shutdown request is a temporary of that statement:
\* it is dropped before the exit notification takes the guard again.
GuardAfterShutdownRequest(c) == Free

\* .await.context("Sending Shutdown request failed")?: an Err response makes
\* shutdown return that error at once.
AfterShutdownRequest(r) == IF r = "ok" THEN "sd_exit" ELSE "idle"

shutdown_response(c) ==
    /\ pc[c] = "sd_wait"
    /\ resp[c] # "none"
    /\ serverLock' = GuardAfterShutdownRequest(c)
    /\ outstanding' = outstanding \ {c}
    /\ resp' = [resp EXCEPT ![c] = "none"]
    /\ pc' = [pc EXCEPT ![c] = AfterShutdownRequest(resp[c])]
    /\ IF AfterShutdownRequest(resp[c]) = "idle"
       THEN /\ result' = [result EXCEPT ![c] =
                            Ret("shutdown", "err", "shutdown_request")]
            /\ callOp' = [callOp EXCEPT ![c] = "none"]
       ELSE UNCHANGED <<result, callOp>>
    /\ UNCHANGED <<symVars, toolVars,
                   bootPc, bootVars, mainloop, wire, readyVars, joinVars,
                   calls, didOpenAt, gotEvent, openOk>>

\* self.server.lock().await.exit(()).context("Sending Exit notification
\* failed")?
shutdown_exit(c) ==
    /\ pc[c] = "sd_exit"
    /\ ServerLockAvailable
    /\ IF mainloop = "running"
       THEN /\ wire' = wire \cup {[msg |-> "exit", from |-> c]}
            /\ pc' = [pc EXCEPT ![c] = "sd_take"]
            /\ UNCHANGED <<result, callOp>>
       ELSE /\ wire' = wire
            /\ result' = [result EXCEPT ![c] = Ret("shutdown", "err", "exit")]
            /\ pc' = [pc EXCEPT ![c] = "idle"]
            /\ callOp' = [callOp EXCEPT ![c] = "none"]
    /\ UNCHANGED <<symVars, toolVars,
                   bootPc, bootVars, mainloop, serverLock, outstanding, resp,
                   readyVars, joinVars, calls, didOpenAt, gotEvent, openOk>>

\* self.mainloop_handle.lock().await.take().unwrap(): the handle is taken,
\* or unwrap() panics on None (the guard is released by the unwinding).
shutdown_take(c) ==
    /\ pc[c] = "sd_take"
    /\ handleLock = Free
    /\ IF mainloop_handle = "some"
       THEN /\ mainloop_handle' = "taken"
            /\ handleLock' = c
            /\ pc' = [pc EXCEPT ![c] = "sd_join"]
            /\ UNCHANGED <<result, callOp>>
       ELSE /\ UNCHANGED <<mainloop_handle, handleLock>>
            /\ result' = [result EXCEPT ![c] =
                            Ret("shutdown", "panic", "unwrap_none")]
            /\ pc' = [pc EXCEPT ![c] = "idle"]
            /\ callOp' = [callOp EXCEPT ![c] = "none"]
    /\ UNCHANGED <<symVars, toolVars,
                   bootPc, bootVars, mainloop, serverLock, outstanding, resp,
                   wire, readyVars, calls, didOpenAt, gotEvent, openOk>>

JoinErrorPropagated(joinErr) == IF joinErr THEN "err" ELSE "ok"

\* if let Err(e) = <join> { error!(..) } Ok(()): shutdown's status after the
\* join, whether or not the join yielded a JoinError.
JoinOutcome(joinErr) == "ok"

\* The JoinHandle completes when the mainloop task has ended, with Ok(()) or
\* with a JoinError (the task panicked); the JoinError is only logged; Ok(()).
shutdown_joined(c) ==
    /\ pc[c] = "sd_join"
    /\ MainloopFinished
    /\ handleLock' = Free
    /\ \E joinErr \in BOOLEAN :
        result' = [result EXCEPT ![c] =
                     Ret("shutdown", JoinOutcome(joinErr),
                         IF joinErr THEN "join_error_logged" ELSE "none")]
    /\ pc' = [pc EXCEPT ![c] = "idle"]
    /\ callOp' = [callOp EXCEPT ![c] = "none"]
    /\ UNCHANGED <<symVars, toolVars,
                   bootPc, bootVars, mainloop, serverLock, outstanding, resp,
                   wire, readyVars, mainloop_handle, calls, didOpenAt,
                   gotEvent, openOk>>

(***************************************************************************)
(* Specification                                                           *)
(***************************************************************************)

Next ==
    \/ new_check_installed
    \/ new_rustup_check
    \/ new_install
    \/ new_spawn
    \/ new_initialize
    \/ new_initialize_response
    \/ new_initialized
    \/ new_spawn_logger
    \/ \E r \in Requesters, o \in {"ok", "err"} : backend_respond(r, o)
    \/ backend_push_indexed
    \/ mainloop_exit
    \/ logger_recv
    \/ logger_end
    \/ \E c \in Callers, k \in QueryOps : query_call(c, k)
    \/ \E c \in Callers : query_request(c)
    \/ \E c \in Callers : query_return(c)
    \/ \E c \in Callers : open_file_call(c)
    \/ \E c \in Callers : open_file_did_open(c)
    \/ \E c \in Callers : open_file_lock_rx(c)
    \/ \E c \in Callers : open_file_recv(c)
    \/ \E c \in Callers : open_file_recv_err(c)
    \/ \E c \in Callers : shutdown_call(c)
    \/ \E c \in Callers : shutdown_request(c)
    \/ \E c \in Callers : shutdown_response(c)
    \/ \E c \in Callers : shutdown_exit(c)
    \/ \E c \in Callers : shutdown_take(c)
    \/ \E c \in Callers : shutdown_joined(c)

Spec == Init /\ [][Next]_vars

\* The Session together with the ChangeNotifier wired to its server handle.
NextWithNotifier == Next \/ change_notifier_notify

NotifierSpec == Init /\ [][NextWithNotifier]_vars

\* The steps a caller task takes once its operation has been invoked; the
\* runtime keeps polling a spawned task whose await can complete.
CallerStep(c) ==
    \/ query_request(c) \/ query_return(c)
    \/ open_file_did_open(c) \/ open_file_lock_rx(c)
    \/ open_file_recv(c) \/ open_file_recv_err(c)
    \/ shutdown_request(c) \/ shutdown_response(c) \/ shutdown_exit(c)
    \/ shutdown_take(c) \/ shutdown_joined(c)

\* Spec with the runtime's scheduling of the caller tasks; nothing is assumed
\* of the backend.
FairSpec == Spec /\ \A c \in Callers : WF_vars(CallerStep(c))

(***************************************************************************)
(* new() immediately followed by shutdown() against a cooperative backend: *)
(* the executable can be launched, at once or after rustup installed it,   *)
(* the project root is valid (its URI and the ChangeNotifier can be        *)
(* built), every request is answered with a result, and the backend closes *)
(* its stream once exit has been sent.                                     *)
(***************************************************************************)

ExitSent == \E c \in Callers : [msg |-> "exit", from |-> c] \in wire

coop_new_rustup_check == new_rustup_check /\ rustup_available' = "yes"
coop_new_install == new_install /\ install_result' = "success"
coop_new_spawn == new_spawn /\ bootPc' = "initialize"
coop_new_initialize == new_initialize /\ bootPc' = "init_wait"
coop_backend_respond == \E r \in Requesters : backend_respond(r, "ok")
coop_mainloop_exit == ExitSent /\ mainloop_exit
coop_shutdown_call == \E c \in Callers : calls = 0 /\ shutdown_call(c)

CoopBoot ==
    \/ new_check_installed
    \/ coop_new_rustup_check
    \/ coop_new_install
    \/ coop_new_spawn
    \/ coop_new_initialize
    \/ new_initialize_response
    \/ new_initialized
    \/ new_spawn_logger

CoopShutdown(c) ==
    \/ shutdown_request(c)
    \/ shutdown_response(c)
    \/ shutdown_exit(c)
    \/ shutdown_take(c)
    \/ shutdown_joined(c)

CoopNext ==
    \/ CoopBoot
    \/ coop_backend_respond
    \/ coop_mainloop_exit
    \/ backend_push_indexed
    \/ logger_recv
    \/ logger_end
    \/ coop_shutdown_call
    \/ \E c \in Callers : CoopShutdown(c)

CoopSpec ==
    /\ Init
    /\ [][CoopNext]_vars
    /\ WF_vars(CoopBoot)
    /\ WF_vars(coop_backend_respond)
    /\ WF_vars(coop_mainloop_exit)
    /\ WF_vars(coop_shutdown_call)
    /\ \A c \in Callers : WF_vars(CoopShutdown(c))

(***************************************************************************)
(* mcp::cargo_check                                                        *)
(*                                                                         *)
(* A text is the sequence of the pieces format! concatenates.  The inputs  *)
(* of one call are drawn in CargoInit: whether the request has a "file"    *)
(* argument, whether the build is a Windows build, whether a project is    *)
(* found for the path, how the path lies relative to the project root,     *)
(* whether cargo check and the serialization succeed, and whether the two  *)
(* notifications can be sent.                                              *)
(***************************************************************************)

SomeTrue == "Some(true)"
NoneFlag == "None"
NoResponse == [content |-> <<>>, is_error |-> "unset"]
TextContent(t) == [type |-> "Text", text |-> t]
PathCases == {"inside", "outside_named", "outside_cargo_toml", "outside_unnamed"}
CargoInputs ==
    [hasFile : BOOLEAN, windows : BOOLEAN, projectFound : BOOLEAN,
     path : PathCases, checkOk : BOOLEAN, serOk : BOOLEAN,
     reqSendOk : BOOLEAN, respSendOk : BOOLEAN]

ErrorFlagOmitted(message) ==
    [content |-> <<TextContent(message)>>, is_error |-> NoneFlag]

\* utils::error_response: one Text content and is_error: Some(true).
error_response(message) ==
    [content |-> <<TextContent(message)>>, is_error |-> SomeTrue]

\* ProjectContext-independent part of Project::relative_path.  The Windows
\* block answers Ok for a path under the root and Ok("Cargo.toml") for any
\* other path whose file name is Cargo.toml; the strip_prefix fallback
\* answers Err(file name) when the path has a file name and the "is not
\* inside project root" text otherwise.
relative_path(windows, path) ==
    IF path = "inside"
    THEN [ok |-> TRUE, val |-> <<"<relative path>">>]
    ELSE IF windows /\ path = "outside_cargo_toml"
    THEN [ok |-> TRUE, val |-> <<"Cargo.toml">>]
    ELSE IF path = "outside_cargo_toml"
    THEN [ok |-> FALSE, val |-> <<"Cargo.toml">>]
    ELSE IF path = "outside_named"
    THEN [ok |-> FALSE, val |-> <<"<file name>">>]
    ELSE [ok |-> FALSE,
          val |-> <<"Path ", "<path>", " is not inside project root ",
                    "<root>">>]

\* utils::get_info_from_request: get_file()?, get_project_by_path, then
\* relative_path; each failure is an error_response.
get_info_from_request(in) ==
    IF ~in.hasFile
    THEN [ok |-> FALSE, response |-> error_response(<<"File is required">>)]
    ELSE IF ~in.projectFound
    THEN [ok |-> FALSE,
          response |-> error_response(
              IF in.windows
              THEN <<"No project found for file ", "<file>",
                     ". On Windows, try using forward slashes in paths.">>
              ELSE <<"No project found for file ", "<file>">>)]
    ELSE LET rp == relative_path(in.windows, in.path) IN
         IF rp.ok
         THEN [ok |-> TRUE, response |-> NoResponse]
         ELSE [ok |-> FALSE,
               response |-> error_response(
                   IF in.windows
                   THEN rp.val \o <<". Windows paths may need normalization. Try using forward slashes.">>
                   ELSE rp.val)]

\* cargo_check::handle_request.
handle_request(in) ==
    IF ~in.checkOk
    THEN error_response(
             IF in.windows
             THEN <<"Cargo check failed: ", "<error>",
                    ". This could be due to path resolution issues on Windows. Please ensure the project is properly registered and the path is accessible.">>
             ELSE <<"Cargo check failed: ", "<error>">>)
    ELSE IF ~in.serOk
    THEN error_response(<<"Failed to serialize cargo check results: ",
                          "<error>">>)
    ELSE [content |-> <<TextContent(<<"<messages as pretty JSON>">>)>>,
          is_error |-> NoneFlag]

\* CargoCheck::call, first statement: on Err(response) return response.
cc_get_info_from_request ==
    /\ cc.pc = "call"
    /\ LET r == get_info_from_request(cc.in) IN
         cc' = IF r.ok
               THEN [cc EXCEPT !.pc = "notify_request"]
               ELSE [cc EXCEPT !.pc = "done", !.response = r.response]
    /\ UNCHANGED <<sessionVars, gl>>

cc_notify_request_propagates ==
    /\ cc.pc = "notify_request"
    /\ cc' = IF cc.in.reqSendOk
             THEN [cc EXCEPT
                     !.pc = "handle",
                     !.notified = Append(@, [kind |-> "Request",
                                             content |-> NoResponse])]
             ELSE [cc EXCEPT
                     !.pc = "done",
                     !.response = error_response(
                                      <<"Failed to send MCP notification">>)]
    /\ UNCHANGED <<sessionVars, gl>>

\* send_mcp_notification(McpNotification::Request {..}); an error is logged.
cc_notify_request ==
    /\ cc.pc = "notify_request"
    /\ cc' = [cc EXCEPT
                !.pc = "handle",
                !.notified =
                    IF cc.in.reqSendOk
                    THEN Append(@, [kind |-> "Request", content |-> NoResponse])
                    ELSE @]
    /\ UNCHANGED <<sessionVars, gl>>

\* handle_request: Ok(response) and Err(response) both become the response.
cc_handle_request ==
    /\ cc.pc = "handle"
    /\ cc' = [cc EXCEPT !.pc = "notify_response",
                        !.response = handle_request(cc.in)]
    /\ UNCHANGED <<sessionVars, gl>>

\* send_mcp_notification(McpNotification::Response {..}) with a clone of the
\* response; an error is logged; the response is returned.
cc_notify_response ==
    /\ cc.pc = "notify_response"
    /\ cc' = [cc EXCEPT
                !.pc = "done",
                !.notified =
                    IF cc.in.respSendOk
                    THEN Append(@, [kind |-> "Response", content |-> cc.response])
                    ELSE @]
    /\ UNCHANGED <<sessionVars, gl>>

CargoInit ==
    /\ SessionInit
    /\ gl = GlIdle
    /\ \E in \in CargoInputs :
          cc = [pc |-> "call", in |-> in, response |-> NoResponse,
                notified |-> <<>>]

CargoNext ==
    \/ cc_get_info_from_request
    \/ cc_notify_request
    \/ cc_handle_request
    \/ cc_notify_response

CargoSpec == CargoInit /\ [][CargoNext]_vars

(***************************************************************************)
(* utils::get_file_lines                                                   *)
(*                                                                         *)
(* The u32 of the code is scaled down to WordBits bits; line i of the file *)
(* is the number i and the separator "\n" is the number 0, so a text is a  *)
(* sequence of numbers.  The inputs are drawn in LinesInit.                *)
(***************************************************************************)

U32Max == 2^WordBits - 1
NL == 0
FileLines(n) == [i \in 1..n |-> i]
AsU32(x) == x % (U32Max + 1)
saturating_sub(a, b) == IF a >= b THEN a - b ELSE 0
saturating_add(a, b) == IF a + b > U32Max THEN U32Max ELSE a + b
NoOutput == [kind |-> "unset", text |-> <<>>]

RECURSIVE join(_)
\* [&str]::join("\n")
join(ls) ==
    IF ls = <<>> THEN <<>>
    ELSE IF Len(ls) = 1 THEN <<ls[1]>>
    ELSE <<ls[1], NL>> \o join(Tail(ls))

RangeCheckWithoutUpperBound(start, end, len) == start > end

\* `if start > end || end >= lines.len() as u32 { return Ok(None); }`
RangeInvalid(start, end, len) == start > end \/ end >= len

\* lines[start..=end]: indexing panics when the slice is out of range.
SliceInclusive(ls, start, end) ==
    IF end >= Len(ls) \/ start > end + 1
    THEN [kind |-> "panic", text |-> <<>>]
    ELSE [kind |-> "Some", text |-> join(SubSeq(ls, start + 1, end + 1))]

LinesInputs ==
    [n : 0..MaxLines, readOk : BOOLEAN,
     start_line : 0..U32Max, end_line : 0..U32Max,
     prefix : 0..MaxPad, suffix : 0..MaxPad]

\* std::fs::read_to_string(file_path)? and content.lines().collect().
gl_read ==
    /\ gl.pc = "call"
    /\ gl' = IF gl.in.readOk
             THEN [gl EXCEPT !.pc = "range", !.lines = FileLines(gl.in.n)]
             ELSE [gl EXCEPT !.pc = "done",
                             !.out = [kind |-> "Err", text |-> <<>>]]
    /\ UNCHANGED <<sessionVars, cc>>

\* start and end: saturating arithmetic, then end is clamped to lines.len().
gl_range ==
    /\ gl.pc = "range"
    /\ LET len == AsU32(Len(gl.lines))
           end == saturating_add(gl.in.end_line, AsU32(gl.in.suffix))
       IN gl' = [gl EXCEPT
                   !.pc = "check",
                   !.start = saturating_sub(gl.in.start_line,
                                            AsU32(gl.in.prefix)),
                   !.end = IF end > len THEN len ELSE end]
    /\ UNCHANGED <<sessionVars, cc>>

\* The validity check, then the slice and the join.
gl_select ==
    /\ gl.pc = "check"
    /\ gl' = [gl EXCEPT
                !.pc = "done",
                !.out = IF RangeInvalid(gl.start, gl.end, AsU32(Len(gl.lines)))
                        THEN [kind |-> "None", text |-> <<>>]
                        ELSE SliceInclusive(gl.lines, gl.start, gl.end)]
    /\ UNCHANGED <<sessionVars, cc>>

LinesInit ==
    /\ SessionInit
    /\ cc = CcIdle
    /\ \E in \in LinesInputs :
          gl = [pc |-> "call", in |-> in, lines |-> <<>>, start |-> 0,
                end |-> 0, out |-> NoOutput]

LinesNext ==
    \/ gl_read
    \/ gl_range
    \/ gl_select

LinesSpec == LinesInit /\ [][LinesNext]_vars

TypeOK ==
    /\ bootPc \in {"check", "rustup", "install", "spawn", "initialize",
                   "init_wait", "initialized", "logger", "ready", "failed"}
    /\ procs \subseteq {"ra_probe", "rustup_version", "rustup_install",
                        "backend"}
    /\ mainloop \in {"none", "running", "ended"}
    /\ serverLock \in Requesters \cup {Free}
    /\ outstanding \subseteq Requesters
    /\ indexedRxLock \in Callers \cup {Free}
    /\ handleLock \in Callers \cup {Free}
    /\ pushed \in 0..MaxPush
    /\ calls \in 0..MaxCalls
    /\ Len(queue) <= MaxPush

(***************************************************************************)
(* Properties                                                              *)
(***************************************************************************)

Pending(c) == pc[c] \in {"of_rxlock", "of_recv"}

\* C1: for one Session, under any interleaving of concurrent query calls, at
\* most one request is outstanding (sent, response not yet observed) on the
\* connection at any time.
C1_AtMostOneOutstanding == Cardinality(outstanding) <= 1

\* Two callers run queries concurrently: one request is on the wire while the
\* other caller waits for the guard.
C1_Witness ==
    \E c \in Callers, d \in Callers :
        /\ c # d
        /\ pc[c] = "q_wait" /\ c \in outstanding /\ resp[c] = "none"
        /\ pc[d] = "q_lock"

\* C2: when the shutdown request issued by shutdown fails (here: the backend,
\* still connected, answers it with an error), shutdown does not abort: its
\* next step is the send of the exit notification.
C2_ExitSentAfterFailedShutdownRequest ==
    [][\A c \in Callers :
          (/\ pc[c] = "sd_wait" /\ resp[c] = "err" /\ mainloop = "running"
           /\ pc'[c] # "sd_wait")
              => pc'[c] = "sd_exit"]_vars

\* C3: shutdown never returns to its caller, with any outcome, before the
\* mainloop task has terminated.
C3_ShutdownReturnsAfterMainloopEnded ==
    \A c \in Callers : result[c].op = "shutdown" => MainloopFinished

InitializedSent == [msg |-> "initialized", from |-> Boot] \in wire

\* C4: new() returns a Session only if the initialize request received a
\* successful response and the initialized notification was sent; if either
\* fails new() returns an error and no Session.
C4_SessionOnlyAfterHandshake ==
    /\ bootPc = "ready" => (resp[Boot] = "ok" /\ InitializedSent)
    /\ resp[Boot] = "err" => bootPc \in {"init_wait", "failed"}
    /\ bootPc = "logger" => InitializedSent

C4_Witness == bootPc = "ready" /\ resp[Boot] = "ok" /\ InitializedSent

\* C5: if neither the backend executable nor the installer executable can be
\* launched, new() returns an error and has spawned no process at all.
C5_NoLauncherNoProcess ==
    (is_installed = "no" /\ rustup_available = "no")
        => (bootPc = "failed" /\ procs = {})

C5_Witness ==
    is_installed = "no" /\ rustup_available = "no" /\ bootPc = "failed"

\* C6: with two open_file calls pending and exactly one index-finished
\* notification pushed while they are pending, the step that delivers the
\* notification makes exactly one open_file call return while the other call
\* stays pending.
C6_OneNotificationUnblocksExactlyOne ==
    [][((\A c \in Callers : Pending(c) /\ didOpenAt[c] = 0)
          /\ pushed = 1 /\ Len(queue) = 1 /\ queue' = <<>>)
        => (openOk' = openOk + 1 /\ \E c \in Callers : Pending(c)')]_vars

\* C7: while an open_file call is blocked on the readiness event, the logging
\* consumer never takes the only queued event away from it.
C7_LoggerNeverStealsFromWaiter ==
    [][((\E c \in Callers : pc[c] = "of_recv") /\ Len(queue) = 1)
        => logged' = logged]_vars

\* C8: open_file does not return Ok before it observed an index-finished
\* event pushed after its did-open was sent; an event queued before the
\* did-open does not unblock it.
C8_OpenFileWaitsForFreshEvent ==
    \A c \in Callers :
        result[c] = Ret("open_file", "ok", "none")
            => gotEvent[c] > didOpenAt[c]

\* C9: the number of open_file calls that returned Ok never exceeds the number
\* of index-finished notifications pushed; every notification is in the
\* channel or was delivered to exactly one consumer.
C9_OneConsumerPerNotification ==
    /\ openOk <= pushed
    /\ openOk + logged + Len(queue) = pushed

\* One open_file call has returned on the single notification pushed while a
\* second call is still blocked on the readiness event.
C9_Witness ==
    \E c \in Callers, d \in Callers :
        /\ c # d
        /\ result[c] = Ret("open_file", "ok", "none")
        /\ pc[d] = "of_recv"
        /\ pushed = 1 /\ openOk = 1

\* C10: whenever a query operation ends, with a result or with a request
\* failure, the guard is free afterwards and the Session is left as it was
\* (mainloop task and join handle untouched).
C10_GuardReleasedWhenQueryEnds ==
    [][\A c \in Callers :
          (pc[c] = "q_wait" /\ pc'[c] = "idle")
              => /\ serverLock' = Free
                 /\ mainloop' = mainloop
                 /\ mainloop_handle' = mainloop_handle
                 /\ bootPc' = "ready"]_vars

\* A query of one caller ended with a request failure while the backend is
\* still running, and another caller has since acquired the guard and has its
\* request on the wire.
C10_Witness ==
    \E c \in Callers, d \in Callers :
        /\ c # d
        /\ result[c].op \in QueryOps /\ result[c].why = "request"
        /\ mainloop = "running"
        /\ pc[d] = "q_wait" /\ serverLock = d /\ d \in outstanding

\* C11: once the mainloop task has terminated, an operation that is invoked
\* on the Session afterwards (it has not yet taken the guard) eventually
\* returns an error; it does not block forever on the guard or on a response.
C11_FailsFastAfterMainloopEnded ==
    \A c \in Callers :
        (MainloopFinished /\ pc[c] \in {"q_lock", "of_lock", "sd_lock"})
            ~> (pc[c] = "idle" /\ result[c].status = "err")

\* An operation is invoked after the mainloop task has ended, while the other
\* caller still holds the guard for a request that was in flight.
C11_Witness ==
    \E c \in Callers, d \in Callers :
        /\ c # d
        /\ MainloopFinished
        /\ pc[c] \in {"q_lock", "of_lock", "sd_lock"}
        /\ pc[d] = "q_wait" /\ serverLock = d

\* C12: with a backend that is present, answers initialize, answers shutdown
\* and closes its stream on exit, new() immediately followed by shutdown()
\* terminates and both calls return success.
C12_StartThenShutdownSucceeds ==
    /\ <>(bootPc = "ready"
            /\ \E c \in Callers : result[c].op = "shutdown"
                                   /\ result[c].status = "ok")
    /\ [](bootPc # "failed")
    /\ [](\A c \in Callers :
              result[c].op = "shutdown" => result[c].status = "ok")

C12_Witness ==
    /\ bootPc = "ready"
    /\ \E c \in Callers : result[c].op = "shutdown" /\ result[c].status = "ok"
    /\ calls = 1

C14_JoinErrorNotPropagated ==
    [][\A c \in Callers :
          (pc[c] = "sd_join" /\ pc'[c] = "idle")
              => result'[c].status = "ok"]_vars

C14_Witness ==
    \E c \in Callers : result[c] = Ret("shutdown", "ok", "join_error_logged")

\* C15: when the backend cannot be launched, rustup can, and the install
\* command exits non-zero or cannot be run, new() returns an error without
\* having spawned the backend LSP process or sent initialize; the install
\* command is run only after the availability check failed.
C15_InstallFailureAborts ==
    /\ install_result \in {"nonzero", "runerr"}
          => /\ bootPc = "failed"
             /\ "backend" \notin procs
             /\ mainloop = "none"
             /\ wire = {}
    /\ (install_result # "unset" \/ "rustup_install" \in procs)
          => (is_installed = "no" /\ rustup_available = "yes")

C15_Witness ==
    /\ install_result = "nonzero"
    /\ is_installed = "no" /\ rustup_available = "yes"
    /\ bootPc = "failed"

C17_ProducerNeverBlocks ==
    (mainloop = "running" /\ pushed < MaxPush) => ENABLED backend_push_indexed

\* A notification sits in the channel while a caller holds the guard and its
\* request is still unanswered.
C17_Witness ==
    \E c \in Callers :
        /\ pc[c] = "q_wait" /\ serverLock = c /\ resp[c] = "none"
        /\ c \in outstanding
        /\ queue # <<>>

\* C20: every message of new() and of the operations is sent in a step that
\* takes the guard: at that moment no other task holds it and no request is
\* awaiting its response.
C20_SendsOnlyUnderGuard ==
    [][\A m \in wire' \ wire :
          m.from \in Requesters
              => (serverLock = Free /\ outstanding = {})]_vars

\* A caller's did-open has to wait for the guard while another caller's
\* request is awaiting its response.
C20_Witness ==
    \E c \in Callers, d \in Callers :
        /\ c # d
        /\ pc[c] = "q_wait" /\ serverLock = c /\ c \in outstanding
        /\ pc[d] = "of_lock"

\* A cargo_check call with these inputs takes one of the failure paths: no
\* file argument, no project for the path, the path cannot be made relative
\* to the project root, cargo check fails, or serialization fails.
CargoFails(in) ==
    \/ ~in.hasFile
    \/ ~in.projectFound
    \/ (in.path # "inside" /\ ~(in.windows /\ in.path = "outside_cargo_toml"))
    \/ ~in.checkOk
    \/ ~in.serOk

ExpectedText(a, b) ==
    [k \in 1..(2 * (b - a) + 1) |->
        IF k % 2 = 1 THEN a + ((k + 1) \div 2) ELSE NL]

\* C19: with start = start_line - prefix (saturating at 0) and
\* end = end_line + suffix, get_file_lines on a readable file returns Some
\* exactly when start <= end < number of lines, the text then being lines
\* start..end joined by newlines; otherwise it returns None; it never indexes
\* outside the line array.
C19_GetFileLines ==
    (gl.pc = "done" /\ gl.in.readOk) =>
        LET start == IF gl.in.start_line >= gl.in.prefix
                     THEN gl.in.start_line - gl.in.prefix ELSE 0
            end == gl.in.end_line + gl.in.suffix
        IN  /\ gl.out.kind # "panic"
            /\ IF start <= end /\ end < gl.in.n
               THEN gl.out = [kind |-> "Some", text |-> ExpectedText(start, end)]
               ELSE gl.out = [kind |-> "None", text |-> <<>>]

\* Some is returned for a range widened by a prefix and a suffix, and the
\* text spans more than one line.
C19_Witness ==
    /\ gl.pc = "done"
    /\ gl.out.kind = "Some"
    /\ gl.in.prefix > 0 /\ gl.in.suffix > 0
    /\ Len(gl.out.text) >= 3

\* The file argument of a cargo_check call resolves to a project and a
\* relative path.
Resolves(in) ==
    /\ in.hasFile
    /\ in.projectFound
    /\ (in.path = "inside" \/ (in.windows /\ in.path = "outside_cargo_toml"))

\* The notifications a call has emitted so far when its file resolved: the
\* Request notification once the call is past it, the Response notification
\* with the given response once the call has returned; each only when its
\* send succeeded.
EmittedUpTo(in, at, response) ==
    (IF at \in {"handle", "notify_response", "done"} /\ in.reqSendOk
     THEN <<[kind |-> "Request", content |-> NoResponse]>> ELSE <<>>)
    \o
    (IF at = "done" /\ in.respSendOk
     THEN <<[kind |-> "Response", content |-> response]>> ELSE <<>>)

\* C21: for a cargo_check call whose file resolves, the Request notification
\* is emitted before the check runs and the Response notification, carrying
\* exactly the returned response, after it, whether the check succeeded or
\* failed; a failed send changes neither the course of the call nor the
\* returned response; when the file does not resolve nothing is emitted.
C21_NotificationsAroundCheck ==
    /\ ~Resolves(cc.in) => cc.notified = <<>>
    /\ Resolves(cc.in) =>
          /\ cc.notified = EmittedUpTo(cc.in, cc.pc, cc.response)
          /\ cc.pc \in {"call", "notify_request", "handle"}
                => cc.response = NoResponse
          /\ cc.pc \in {"notify_response", "done"}
                => /\ cc.response.is_error
                        = (IF cc.in.checkOk /\ cc.in.serOk
                           THEN NoneFlag ELSE SomeTrue)
                   /\ cc.response = handle_request(cc.in)

\* A call whose Request notification could not be sent has returned the
\* error response of a failed check, and the Response notification carries it.
C21_Witness ==
    /\ cc.pc = "done"
    /\ Resolves(cc.in)
    /\ ~cc.in.reqSendOk /\ cc.in.respSendOk /\ ~cc.in.checkOk
    /\ cc.notified = <<[kind |-> "Response", content |-> cc.response]>>
    /\ cc.response.is_error = SomeTrue

\* C22: an open_file call that waits for the readiness event holds neither
\* the guard nor an outstanding request, so a query of another caller that
\* waits for the guard can take it unless a third task holds it.
C22_PendingOpenFileHoldsNoGuard ==
    \A c \in Callers :
        Pending(c) =>
            /\ serverLock # c
            /\ c \notin outstanding
            /\ \A d \in Callers \ {c} :
                  (pc[d] = "q_lock" /\ serverLock \in {Free, c})
                      => ENABLED query_request(d)

\* While c waits for the readiness event, d holds the guard with a request
\* in flight: d took the guard after c's did-open.
C22_Witness ==
    \E c \in Callers, d \in Callers :
        /\ c # d
        /\ pc[c] = "of_recv" /\ indexedRxLock = c
        /\ pc[d] = "q_wait" /\ serverLock = d /\ d \in outstanding

\* C23: no call to shutdown panics, also not a second call or one of two
\* concurrent calls.
C23_ShutdownNeverPanics ==
    \A c \in Callers : result[c].status # "panic"

\* C24: after a successful start the backend process whose pipes carry the
\* connection is the only rust-analyzer process start has launched and left
\* behind.
C24_OneBackendProcess ==
    bootPc = "ready" => (procs \cap {"ra_probe", "backend"}) = {"backend"}

\* shutdown has returned to some caller, or the mainloop task has returned.
SessionEnded ==
    \/ MainloopFinished
    \/ \E d \in Callers : result[d].op = "shutdown"

====
